---- MODULE Spec2Model ----
(* Object exporter of io_scene_xray (obj/exp/main.py): export_main and the    *)
(* section encoders it runs in order over one scene hierarchy.                *)
EXTENDS Integers, Sequences, FiniteSets, TLC

(* ------------------------------------------------------------------ bounds *)
\* number of scene nodes below and including the exported root (node 1)
NumNodes == 4
\* largest value time.time() takes
MaxTime == 2
\* number of successive export_main calls on the same object
MaxExports == 2

(* ---------------------------------------------------------------- universe *)
Nodes == 1..NumNodes
Root == 1
None == "None"
NoNode == 0
Types == {"MESH", "ARMATURE", "EMPTY"}
Materials == {"Mat1", "Mat2"}
BoneNames == {"b1", "b2"}
GroupNames == {"g1", "g2"}
Users == {"\\\\host\\alice", "\\\\host\\bob"}
RefNames == <<"idle", "run">>

\* material.name
MaterialName(material) ==
    IF material = "Mat1" THEN "a" ELSE "b"

Range(s) == {s[i] : i \in DOMAIN s}

\* the orders in which iterating a Python set may yield its members
Orderings(S) ==
    {s \in [1..Cardinality(S) -> S] : \A i, j \in DOMAIN s : i # j => s[i] # s[j]}

(* ------------------------------------------------------------------- state *)
VARIABLES
    scene,           \* the hierarchy under bpy_obj: children, type, helper, modifiers, slots, used, arm
    xray,            \* bpy_obj.xray, or None when the object has no such attribute
    context,         \* export context flags
    matrix_world,    \* bpy_root.matrix_world
    curruser,        \* '\\\\node\\user' of the running session
    clock,           \* int(time.time())
    pc,              \* position inside export_main
    chunked_writer,  \* chunks put so far: sequence of [id, data]
    mesh_writers, armatures, materials, bone_writers, bone_calls, some_arm,
    warnings,        \* log.warn calls of the running export
    exports,         \* export_main calls completed
    revlog           \* REVISION records of the completed calls, oldest first

vars == <<scene, xray, context, matrix_world, curruser, clock, pc, chunked_writer,
          mesh_writers, armatures, materials, bone_writers, bone_calls, some_arm,
          warnings, exports, revlog>>

inputs == <<scene, xray, context, matrix_world>>
walked == <<mesh_writers, armatures, materials, bone_writers, bone_calls, some_arm>>

(* ------------------------------------------------------------ chunk writer *)
\* ChunkedWriter.put(id, data)
put(writer, id, data) ==
    Append(writer, [id |-> id, data |-> data])

\* pw_v3f
pw_v3f(vec) ==
    <<vec[1], vec[3], vec[2]>>

(* ------------------------------------------------------------- scene walk *)
\* utils.is_helper_object
is_helper_object(n) ==
    scene.helper[n]

\* utils.is_exportable_bone
is_exportable_bone(arm, bone_) ==
    scene.arm[arm].exportable[bone_]

\* mesh.export_mesh: the writer of mesh node n and the material names its faces use
export_mesh(n) ==
    [writer |-> [mesh |-> n], used_material_names |-> scene.used[n]]

\* for modifier in bpy_obj.modifiers: ARMATURE modifiers with a bound object
ModifierArmatures(n) ==
    {scene.modifiers[n][i].object : i \in
        {j \in DOMAIN scene.modifiers[n] :
            /\ scene.modifiers[n][j].type = "ARMATURE"
            /\ scene.modifiers[n][j].object # NoNode}}

\* faulty variant: every non-null slot material, used by a face or not
UsedSlotMaterials_AllSlots(n, used_material_names) ==
    {scene.slots[n][i] : i \in {j \in DOMAIN scene.slots[n] : scene.slots[n][j] # None}}

\* for material in bpy_obj.data.materials: non-null and used by the mesh's faces
UsedSlotMaterials(n, used_material_names) ==
    {scene.slots[n][i] : i \in
        {j \in DOMAIN scene.slots[n] :
            /\ scene.slots[n][j] # None
            /\ MaterialName(scene.slots[n][j]) \in used_material_names}}

\* faulty variant: armature nodes are not collected, only the targets of modifiers
ScanNode_ModifiersOnly(n, acc) ==
    IF scene.type[n] = "MESH"
    THEN LET res == export_mesh(n) IN
         [mesh_writers |-> Append(acc.mesh_writers, res.writer),
          armatures |-> acc.armatures \cup ModifierArmatures(n),
          materials |-> acc.materials \cup UsedSlotMaterials(n, res.used_material_names)]
    ELSE acc

\* the body of scan_r for one node that is not a helper, before its children
ScanNode(n, acc) ==
    IF scene.type[n] = "MESH"
    THEN LET res == export_mesh(n) IN
         [mesh_writers |-> Append(acc.mesh_writers, res.writer),
          armatures |-> acc.armatures \cup ModifierArmatures(n),
          materials |-> acc.materials \cup UsedSlotMaterials(n, res.used_material_names)]
    ELSE IF scene.type[n] = "ARMATURE"
    THEN [acc EXCEPT !.armatures = @ \cup {n}]
    ELSE acc

\* faulty variant: the children are walked last to first
ChildrenOf_Reversed(n) ==
    [i \in DOMAIN scene.children[n] |-> scene.children[n][Len(scene.children[n]) + 1 - i]]

\* bpy_obj.children, in stored order
ChildrenOf(n) ==
    scene.children[n]

RECURSIVE scan_r(_, _)
RECURSIVE scan_children(_, _, _)
\* scan_r: helper nodes return at once; every other node is scanned, then its children
scan_r(n, acc) ==
    IF is_helper_object(n)
    THEN acc
    ELSE scan_children(ChildrenOf(n), 1, ScanNode(n, acc))

\* for child in bpy_obj.children: scan_r(child)
scan_children(kids, i, acc) ==
    IF i > Len(kids)
    THEN acc
    ELSE scan_children(kids, i + 1, scan_r(kids[i], acc))

EmptyScan ==
    [mesh_writers |-> <<>>, armatures |-> {}, materials |-> {}]

\* bones of one armature handed to bone.export_bone, in stored order
BonesToExport(arm) ==
    SelectSeq(scene.arm[arm].bones, LAMBDA b : is_exportable_bone(arm, b))

\* bone.export_bone: one writer per call, appended to the caller's list
export_bone(arm, bone_, writers) ==
    Append(writers, [arm |-> arm, bone |-> bone_])

RECURSIVE BoneCalls(_, _)
\* for bpy_arm_obj in armatures: for bone_ in bpy_arm_obj.data.bones
BoneCalls(arm_list, i) ==
    IF i > Len(arm_list)
    THEN <<>>
    ELSE [j \in DOMAIN BonesToExport(arm_list[i]) |->
             <<arm_list[i], BonesToExport(arm_list[i])[j]>>]
         \o BoneCalls(arm_list, i + 1)

RECURSIVE BoneWriters(_, _)
BoneWriters(calls, i) ==
    IF i = 0
    THEN <<>>
    ELSE export_bone(calls[i][1], calls[i][2], BoneWriters(calls, i - 1))

\* msw.put(idx, mesh_writer) with idx counting from 0
IndexedChunks(writers) ==
    [i \in DOMAIN writers |-> [id |-> i - 1, data |-> writers[i]]]

(* -------------------------------------------------------- section encoders *)
\* export_version: putf('H', 0x10)
VersionData ==
    <<16>>

\* export_flags: xray.flags if xray is not None else 0
FlagsData ==
    <<IF xray.present THEN xray.flags ELSE 0>>

\* some_arm = arm_list[0] if arm_list else None
SomeArm(arm_list) ==
    IF arm_list # <<>> THEN arm_list[1] ELSE NoNode

\* one SURFACES2 entry; material.xray carries the defaults of XRayMaterialProperties,
\* no texture is active
SurfaceEntry(material) ==
    [name |-> MaterialName(material), eshader |-> "models\\model", cshader |-> "default",
     gamemtl |-> "default", texture |-> "", uv_layer |-> "", flags |-> 0,
     tail |-> <<274, 1>>]

\* export_surfaces: putf('I', len(materials)), then one entry per material
SurfacesData(order) ==
    [count |-> Cardinality(materials), entries |-> [i \in DOMAIN order |-> SurfaceEntry(order[i])]]

RECURSIVE splitlines(_, _, _)
\* str.splitlines over a text given as tokens: "LF" and "CRLF" end a line
splitlines(text, i, line) ==
    IF i > Len(text)
    THEN IF line = <<>> THEN <<>> ELSE <<line>>
    ELSE IF text[i] \in {"LF", "CRLF"}
    THEN <<line>> \o splitlines(text, i + 1, <<>>)
    ELSE splitlines(text, i + 1, Append(line, text[i]))

RECURSIVE joinlines(_, _)
\* '\r\n'.join(lines)
joinlines(lines, i) ==
    IF i > Len(lines)
    THEN <<>>
    ELSE (IF i > 1 THEN <<"CRLF">> ELSE <<>>) \o lines[i] \o joinlines(lines, i + 1)

\* rank of a name in ascending string order
NameRank(name) ==
    CHOOSE i \in DOMAIN RefNames : RefNames[i] = name

RECURSIVE SortedNames(_)
\* acts = list(set(acts)); acts.sort()
SortedNames(S) ==
    IF S = {}
    THEN <<>>
    ELSE LET least == CHOOSE x \in S : \A y \in S : NameRank(x) <= NameRank(y)
         IN <<least>> \o SortedNames(S \ {least})

\* xray_motions.export_motions: what the motion encoder leaves in the writer
xray_motions_export_motions(acts, arm) ==
    IF scene.motion_bytes THEN <<Len(acts)>> \o acts ELSE <<>>

\* faulty variant: every pose bone, exportable or not
ExportableBones_All(arm) ==
    scene.arm[arm].bones

\* exportable_bones of export_partitions, over some_arm.pose.bones
ExportableBones(arm) ==
    SelectSeq(scene.arm[arm].bones, LAMBDA b : is_exportable_bone(arm, b))

\* the bone names of one pose group among the exportable bones
GroupBones(arm, group) ==
    SelectSeq(ExportableBones(arm), LAMBDA b : scene.arm[arm].bone_group[b] = group)

\* all_groups
AllGroups(arm) ==
    [i \in DOMAIN scene.arm[arm].bone_groups |->
        [name |-> scene.arm[arm].bone_groups[i],
         bones |-> GroupBones(arm, scene.arm[arm].bone_groups[i])]]

\* non_empty_groups
NonEmptyGroups(arm) ==
    SelectSeq(AllGroups(arm), LAMBDA g : g.bones # <<>>)

\* PARTITIONS1 payload: group count, then name, bone count and bone names per group
PartitionsData(arm) ==
    [count |-> Len(NonEmptyGroups(arm)),
     groups |-> [i \in DOMAIN NonEmptyGroups(arm) |->
                    [name |-> NonEmptyGroups(arm)[i].name,
                     count |-> Len(NonEmptyGroups(arm)[i].bones),
                     bones |-> NonEmptyGroups(arm)[i].bones]]]

RECURSIVE JoinComma(_, _)
\* ','.join(ref.name for ref in motionrefs)
JoinComma(names, i) ==
    IF i > Len(names)
    THEN ""
    ELSE (IF i > 1 THEN "," ELSE "") \o names[i] \o JoinComma(names, i + 1)

\* faulty variant: the legacy string wins over the collection
MotionRefsChunk_LegacyFirst(xr, soc_sgroups) ==
    IF xr.motionrefs # ""
    THEN <<[id |-> "MOTION_REFS", data |-> <<xr.motionrefs>>]>>
    ELSE IF xr.motionrefs_collection # <<>>
    THEN IF soc_sgroups
         THEN <<[id |-> "MOTION_REFS", data |-> <<JoinComma(xr.motionrefs_collection, 1)>>]>>
         ELSE <<[id |-> "SMOTIONS3",
                 data |-> <<Len(xr.motionrefs_collection)>> \o xr.motionrefs_collection]>>
    ELSE <<>>

\* the chunk export_motion_refs puts, as a sequence of zero or one chunk
MotionRefsChunk(xr, soc_sgroups) ==
    IF xr.motionrefs_collection # <<>>
    THEN IF soc_sgroups
         THEN <<[id |-> "MOTION_REFS", data |-> <<JoinComma(xr.motionrefs_collection, 1)>>]>>
         ELSE <<[id |-> "SMOTIONS3",
                 data |-> <<Len(xr.motionrefs_collection)>> \o xr.motionrefs_collection]>>
    ELSE IF xr.motionrefs # ""
    THEN <<[id |-> "MOTION_REFS", data |-> <<xr.motionrefs>>]>>
    ELSE <<>>

\* the log.warn calls of export_motion_refs
MotionRefsWarnings(xr) ==
    IF xr.motionrefs_collection # <<>> /\ xr.motionrefs # ""
    THEN <<[message |-> "MotionRefs: skipped legacy data", data |-> xr.motionrefs]>>
    ELSE <<>>

\* mathutils.Matrix.Identity(4)
IdentityMatrix ==
    [translation |-> <<0, 0, 0>>, euler |-> <<0, 0, 0>>, scale |-> <<1, 1, 1>>]

\* TRANSFORM payload: swapped translation, then swapped 'YXZ' euler angles
TransformData(matrix) ==
    pw_v3f(matrix.translation) \o pw_v3f(matrix.euler)

\* faulty variant: the creation time is taken from the clock even when one is stored
RevisionRecord_ResetCtime(revision, user, currtime) ==
    IF revision.owner = "" \/ revision.owner = user
    THEN <<user, currtime, "", 0>>
    ELSE <<revision.owner, revision.ctime, user, currtime>>

\* the REVISION record export_revision writes
RevisionRecord(revision, user, currtime) ==
    IF revision.owner = "" \/ revision.owner = user
    THEN <<user, IF revision.ctime # 0 THEN revision.ctime ELSE currtime, "", 0>>
    ELSE <<revision.owner, revision.ctime, user, currtime>>

(* ------------------------------------------------------------- export_main *)
\* faulty variant: export_loddef called before export_user_data
Sections_LodRefFirst ==
    <<"version", "flags", "meshes", "surfaces", "bones", "loddef", "user_data",
      "motions", "partitions", "motion_refs", "transform", "revision">>

\* the body of export_main: the encoders in the order it calls them
Sections ==
    <<"version", "flags", "meshes", "surfaces", "bones", "user_data", "loddef",
      "motions", "partitions", "motion_refs", "transform", "revision">>

\* where export_main goes after an encoder returns: the next call, or back to the caller
After(section) ==
    LET i == CHOOSE k \in DOMAIN Sections : Sections[k] = section
    IN IF i < Len(Sections) THEN Sections[i + 1] ELSE "idle"

\* entry of export_main: xray = bpy_obj.xray if hasattr(bpy_obj, 'xray') else None;
\* the caller hands in a fresh chunked writer
Start ==
    /\ pc = "idle"
    /\ pc' = Sections[1]
    /\ chunked_writer' = <<>>
    /\ warnings' = <<>>
    /\ mesh_writers' = <<>>
    /\ armatures' = {}
    /\ materials' = {}
    /\ bone_writers' = <<>>
    /\ bone_calls' = <<>>
    /\ some_arm' = NoNode
    /\ UNCHANGED <<inputs, curruser, clock, exports, revlog>>

\* the first export_main call on the object
export_main ==
    /\ exports = 0
    /\ Start

\* a section encoder that touches only the chunked writer
Step(from, chunks) ==
    /\ pc = from
    /\ pc' = After(from)
    /\ chunked_writer' = chunked_writer \o chunks
    /\ UNCHANGED <<inputs, curruser, clock, walked, warnings, exports, revlog>>

export_version ==
    Step("version", <<[id |-> "VERSION", data |-> VersionData]>>)

export_flags ==
    Step("flags", <<[id |-> "FLAGS", data |-> FlagsData]>>)

\* export_meshes: the walk, the bone writers of every armature found, the MESHES chunk
export_meshes ==
    /\ pc = "meshes"
    /\ LET acc == scan_r(Root, EmptyScan) IN
       \E arm_list \in Orderings(acc.armatures) :
          /\ mesh_writers' = acc.mesh_writers
          /\ armatures' = acc.armatures
          /\ materials' = acc.materials
          /\ bone_calls' = BoneCalls(arm_list, 1)
          /\ bone_writers' = BoneWriters(BoneCalls(arm_list, 1), Len(BoneCalls(arm_list, 1)))
          /\ some_arm' = SomeArm(arm_list)
          /\ chunked_writer' = put(chunked_writer, "MESHES", IndexedChunks(acc.mesh_writers))
    /\ pc' = After("meshes")
    /\ UNCHANGED <<inputs, curruser, clock, warnings, exports, revlog>>

\* export_surfaces: the materials in the set's iteration order
export_surfaces ==
    \E order \in Orderings(materials) :
        Step("surfaces", <<[id |-> "SURFACES2", data |-> SurfacesData(order)]>>)

\* faulty variant: the container is put even when no bone was collected
BonesChunk_Unguarded(writers) ==
    <<[id |-> "BONES1", data |-> IndexedChunks(writers)]>>

\* the BONES1 chunk of export_bones
BonesChunk(writers) ==
    IF writers # <<>>
    THEN <<[id |-> "BONES1", data |-> IndexedChunks(writers)]>>
    ELSE <<>>

export_bones ==
    Step("bones", BonesChunk(bone_writers))

\* the USERDATA chunk: the lines of the text joined by CRLF
UserDataChunk(userdata) ==
    IF userdata # <<>>
    THEN <<[id |-> "USERDATA", data |-> joinlines(splitlines(userdata, 1, <<>>), 1)]>>
    ELSE <<>>

\* export_user_data; xray.userdata on None raises AttributeError and ends the call
export_user_data ==
    IF xray.present
    THEN Step("user_data", UserDataChunk(xray.userdata))
    ELSE /\ pc = "user_data"
         /\ pc' = "raised"
         /\ UNCHANGED <<inputs, curruser, clock, chunked_writer, walked, warnings, exports, revlog>>

\* the LOD_REF chunk of export_loddef
LodRefChunk(lodref) ==
    IF lodref # ""
    THEN <<[id |-> "LOD_REF", data |-> <<lodref>>]>>
    ELSE <<>>

export_loddef ==
    Step("loddef", LodRefChunk(xray.lodref))

\* the MOTIONS chunk, when an armature was found, motions are exported and the encoder wrote
MotionsChunk(arm) ==
    IF arm # NoNode /\ context.export_motions
    THEN LET data == xray_motions_export_motions(SortedNames(Range(xray.motions_collection)), arm)
         IN IF data # <<>> THEN <<[id |-> "MOTIONS", data |-> data]>> ELSE <<>>
    ELSE <<>>

export_motions ==
    Step("motions", MotionsChunk(some_arm))

\* the PARTITIONS1 chunk of export_partitions
PartitionsChunk(arm) ==
    IF arm # NoNode /\ scene.arm[arm].bone_groups # <<>> /\ NonEmptyGroups(arm) # <<>>
    THEN <<[id |-> "PARTITIONS1", data |-> PartitionsData(arm)]>>
    ELSE <<>>

export_partitions ==
    Step("partitions", PartitionsChunk(some_arm))

export_motion_refs ==
    /\ pc = "motion_refs"
    /\ pc' = After("motion_refs")
    /\ warnings' = warnings \o MotionRefsWarnings(xray)
    /\ chunked_writer' = chunked_writer \o MotionRefsChunk(xray, context.soc_sgroups)
    /\ UNCHANGED <<inputs, curruser, clock, walked, exports, revlog>>

\* the TRANSFORM chunk of export_transform
TransformChunk(matrix) ==
    IF matrix # IdentityMatrix
    THEN <<[id |-> "TRANSFORM", data |-> TransformData(matrix)]>>
    ELSE <<>>

export_transform ==
    Step("transform", TransformChunk(matrix_world))

\* export_revision, after which export_main returns
export_revision ==
    /\ pc = "revision"
    /\ pc' = After("revision")
    /\ chunked_writer' = put(chunked_writer, "REVISION",
                             RevisionRecord(xray.revision, curruser, clock))
    /\ exports' = exports + 1
    /\ revlog' = Append(revlog, [record |-> RevisionRecord(xray.revision, curruser, clock),
                                  user |-> curruser, time |-> clock])
    /\ UNCHANGED <<inputs, curruser, clock, walked, warnings>>

Next ==
    \/ export_main
    \/ export_version
    \/ export_flags
    \/ export_meshes
    \/ export_surfaces
    \/ export_bones
    \/ export_user_data
    \/ export_loddef
    \/ export_motions
    \/ export_partitions
    \/ export_motion_refs
    \/ export_transform
    \/ export_revision

(* -------------------------------------------------- successive export calls *)
\* export_main called again on the same object
export_again ==
    /\ exports \in 1..(MaxExports - 1)
    /\ Start

\* another user runs the next export: platform.node() / getpass.getuser() change
Login ==
    /\ pc = "idle"
    /\ exports \in 1..(MaxExports - 1)
    /\ \E u \in Users \ {curruser} : curruser' = u
    /\ UNCHANGED <<inputs, clock, pc, chunked_writer, walked, warnings, exports, revlog>>

\* time.time() advances between two exports
Tick ==
    /\ pc = "idle"
    /\ exports \in 1..(MaxExports - 1)
    /\ clock < MaxTime
    /\ clock' = clock + 1
    /\ UNCHANGED <<inputs, curruser, pc, chunked_writer, walked, warnings, exports, revlog>>

NextSuccessive ==
    \/ Next
    \/ export_again
    \/ Login
    \/ Tick

(* ------------------------------------------------------------------ inputs *)
\* hierarchies over Nodes rooted at node 1: every other node hangs under a lower one
ParentMaps ==
    {p \in [Nodes \ {Root} -> Nodes] : \A i \in Nodes \ {Root} : p[i] < i}

RECURSIVE SortedNodes(_, _)
\* the nodes of S as a sequence, ascending or descending
SortedNodes(S, descending) ==
    IF S = {}
    THEN <<>>
    ELSE LET first == CHOOSE x \in S :
                          \A y \in S : IF descending THEN y <= x ELSE x <= y
         IN <<first>> \o SortedNodes(S \ {first}, descending)

\* bpy_obj.children of every node: the stored order is ascending or descending
ChildLists ==
    {[n \in Nodes |-> SortedNodes({i \in Nodes \ {Root} : p[i] = n}, d)] :
        p \in ParentMaps, d \in BOOLEAN}

\* every node directly under the root
StarChildren ==
    [n \in Nodes |-> IF n = Root THEN SortedNodes(Nodes \ {Root}, FALSE) ELSE <<>>]

\* every node under its predecessor
ChainChildren ==
    [n \in Nodes |-> IF n < NumNodes THEN <<n + 1>> ELSE <<>>]

\* at most one node is flagged as a helper
HelperFlags ==
    {[n \in Nodes |-> n = h] : h \in Nodes \cup {NoNode}}

\* bpy_arm_obj.data.bones and pose of an armature with two exportable, ungrouped bones
DefaultArm ==
    [bones |-> <<"b1", "b2">>, exportable |-> [b \in BoneNames |-> TRUE],
     bone_groups |-> <<>>, bone_group |-> [b \in BoneNames |-> None]]

\* an armature whose first bone is not exportable and sits alone in its pose group
MixedArm ==
    [bones |-> <<"b1", "b2">>, exportable |-> [b \in BoneNames |-> b = "b2"],
     bone_groups |-> <<"g1", "g2">>,
     bone_group |-> [b \in BoneNames |-> IF b = "b1" THEN "g1" ELSE "g2"]]

\* armatures: stored bone order, exportable flags, pose groups, group of each bone
Skeletons ==
    {[bones |-> bs, exportable |-> ex, bone_groups |-> gs, bone_group |-> bg] :
        bs \in {<<"b1", "b2">>, <<"b2">>},
        ex \in [BoneNames -> BOOLEAN],
        gs \in {<<>>, <<"g1">>, <<"g1", "g2">>},
        bg \in [BoneNames -> GroupNames \cup {None}]}

WellFormedSkeletons ==
    {sk \in Skeletons : \A b \in BoneNames : sk.bone_group[b] \in Range(sk.bone_groups) \cup {None}}

\* modifier stacks of a mesh: at most two modifiers, the armature ones bound to an
\* armature object or to nothing
ModifierStacks(arms) ==
    {<<>>, <<[type |-> "SUBSURF", object |-> NoNode]>>}
    \cup {<<[type |-> "ARMATURE", object |-> t]>> : t \in arms \cup {NoNode}}
    \cup {<<[type |-> "ARMATURE", object |-> t], [type |-> "ARMATURE", object |-> u]>> :
             t \in arms, u \in arms}

\* bpy_obj.data.materials: at most two slots, a slot may be empty
SlotLists ==
    {<<>>} \cup {<<m>> : m \in Materials \cup {None}}
    \cup {<<m, k>> : m \in Materials \cup {None}, k \in Materials \cup {None}}

\* the names export_mesh may report for a mesh: those of materials in its slots
UsedNameSets(slots) ==
    SUBSET {MaterialName(m) : m \in Range(slots) \ {None}}

NoModifiers ==
    [n \in Nodes |-> <<>>]

NoSlots ==
    [n \in Nodes |-> <<>>]

NoUsed ==
    [n \in Nodes |-> {}]

\* a hierarchy of empties
PlainScene ==
    [children |-> StarChildren, type |-> [n \in Nodes |-> "EMPTY"],
     helper |-> [n \in Nodes |-> FALSE], modifiers |-> NoModifiers, slots |-> NoSlots,
     used |-> NoUsed, arm |-> [n \in Nodes |-> DefaultArm], motion_bytes |-> TRUE]

\* an armature root with one skinned mesh under it
RigScene ==
    [PlainScene EXCEPT
        !.type = [n \in Nodes |-> IF n = 1 THEN "ARMATURE" ELSE IF n = 2 THEN "MESH" ELSE "EMPTY"],
        !.modifiers = [n \in Nodes |-> IF n = 2 THEN <<[type |-> "ARMATURE", object |-> 1]>> ELSE <<>>],
        !.arm = [n \in Nodes |-> MixedArm]]

\* bpy_obj.xray of an object nothing was set on
FreshXray ==
    [present |-> TRUE, flags |-> 0, userdata |-> <<>>, lodref |-> "", motionrefs |-> "",
     motionrefs_collection |-> <<>>, motions_collection |-> <<>>,
     revision |-> [owner |-> "", ctime |-> 0]]

DefaultContext ==
    [export_motions |-> TRUE, soc_sgroups |-> FALSE]

\* everything export_main assigns before it reads it
InitProgram ==
    /\ pc = "idle"
    /\ chunked_writer = <<>>
    /\ mesh_writers = <<>>
    /\ armatures = {}
    /\ materials = {}
    /\ bone_writers = <<>>
    /\ bone_calls = <<>>
    /\ some_arm = NoNode
    /\ warnings = <<>>
    /\ exports = 0
    /\ revlog = <<>>

InitDefaults ==
    /\ xray = FreshXray
    /\ context = DefaultContext
    /\ matrix_world = IdentityMatrix
    /\ curruser = "\\\\host\\alice"
    /\ clock = 1

\* node kinds with at most one armature node
KindsOneArmature ==
    {ty \in [Nodes -> Types] : Cardinality({n \in Nodes : ty[n] = "ARMATURE"}) <= 1}

\* hierarchies: every shape, the node kinds with at most one armature, every helper position
InitHierarchy ==
    /\ \E ch \in ChildLists, ty \in KindsOneArmature, he \in HelperFlags :
          scene = [PlainScene EXCEPT !.children = ch, !.type = ty, !.helper = he]
    /\ InitDefaults

\* armatures: kinds and modifier stacks of the nodes 1 to 3 under two shapes, node 2 or
\* 3 possibly a helper
InitArmatures ==
    /\ \E ch \in {StarChildren, ChainChildren},
          ty \in {t \in [Nodes -> Types] : \A n \in Nodes : n > 3 => t[n] = "EMPTY"},
          h \in {NoNode, 2, 3} :
          \E mo \in [Nodes -> ModifierStacks({n \in Nodes : ty[n] = "ARMATURE"})] :
             /\ \A n \in Nodes : ty[n] # "MESH" => mo[n] = <<>>
             /\ scene = [PlainScene EXCEPT !.children = ch, !.type = ty, !.modifiers = mo,
                                           !.helper = [n \in Nodes |-> n = h],
                                           !.arm = [n \in Nodes |-> MixedArm]]
    /\ InitDefaults

\* skeletons: bones, exportable flags and pose groups of the root armature
InitSkeletons ==
    /\ \E sk \in WellFormedSkeletons, other \in {DefaultArm, MixedArm}, mb \in BOOLEAN :
          scene = [RigScene EXCEPT
                      !.type = [n \in Nodes |-> IF n = 2 THEN "MESH"
                                                ELSE IF n \in {1, 3} THEN "ARMATURE" ELSE "EMPTY"],
                      !.arm = [n \in Nodes |-> IF n = 1 THEN sk ELSE other],
                      !.motion_bytes = mb]
    /\ \E em \in BOOLEAN :
          context = [DefaultContext EXCEPT !.export_motions = em]
    /\ xray = [FreshXray EXCEPT !.motions_collection = <<"run", "idle", "run">>]
    /\ matrix_world = IdentityMatrix
    /\ curruser = "\\\\host\\alice"
    /\ clock = 1

\* materials: slots and used names of the meshes 2 and 3 under an empty or mesh root
InitMaterials ==
    /\ \E s2 \in SlotLists, s3 \in SlotLists, rootmesh \in BOOLEAN, he \in BOOLEAN :
          \E u2 \in UsedNameSets(s2), u3 \in UsedNameSets(s3) :
             scene = [PlainScene EXCEPT
                         !.type = [n \in Nodes |-> IF n \in {2, 3} \/ (n = 1 /\ rootmesh)
                                                    THEN "MESH" ELSE "EMPTY"],
                         !.helper = [n \in Nodes |-> he /\ n = 3],
                         !.slots = [n \in Nodes |-> IF n = 2 THEN s2 ELSE s3],
                         !.used = [n \in Nodes |-> IF n = 2 THEN u2 ELSE u3]]
    /\ InitDefaults

\* object properties and context flags over an empty scene and a rig
InitObject ==
    /\ scene \in {PlainScene, RigScene}
    /\ \/ xray = [FreshXray EXCEPT !.present = FALSE]
       \/ \E ud \in {<<>>, <<"x", "LF", "y">>, <<"LF">>}, lr \in {"", "lod"},
             mr \in {"", "legacy"}, rc \in {<<>>, <<"run">>, <<"run", "idle">>},
             mc \in {<<>>, <<"run">>} :
             xray = [FreshXray EXCEPT !.flags = 1, !.userdata = ud, !.lodref = lr,
                                      !.motionrefs = mr, !.motionrefs_collection = rc,
                                      !.motions_collection = mc]
    /\ context \in [export_motions : BOOLEAN, soc_sgroups : BOOLEAN]
    /\ matrix_world \in {IdentityMatrix, [IdentityMatrix EXCEPT !.translation = <<1, 2, 3>>]}
    /\ curruser = "\\\\host\\alice"
    /\ clock = 1

\* revision: stored owner and creation time, the running user and the time
InitRevision ==
    /\ scene = PlainScene
    /\ \E ow \in Users \cup {"", "\\\\old\\carol"}, ct \in 0..MaxTime :
          xray = [FreshXray EXCEPT !.revision = [owner |-> ow, ctime |-> ct]]
    /\ context = DefaultContext
    /\ matrix_world = IdentityMatrix
    /\ curruser \in Users
    /\ clock \in 1..MaxTime

Init ==
    /\ InitProgram
    /\ \/ InitHierarchy
       \/ InitArmatures
       \/ InitSkeletons
       \/ InitMaterials
       \/ InitObject
       \/ InitRevision

Spec ==
    Init /\ [][Next]_vars

InitSuccessive ==
    /\ InitProgram
    /\ InitRevision

SpecSuccessive ==
    InitSuccessive /\ [][NextSuccessive]_vars

(* ------------------------------------------------- vocabulary of the claims *)
\* an export_main call has returned and its chunked writer is still at hand
Completed ==
    pc = "idle" /\ exports >= 1

ChunkIds ==
    [i \in DOMAIN chunked_writer |-> chunked_writer[i].id]

\* the chunks of the running or last export that carry one of the given ids
ChunksOf(ids) ==
    SelectSeq(chunked_writer, LAMBDA c : c.id \in ids)

\* the encoders up to and including the given one have run
Past(section) ==
    \/ Completed
    \/ \E i, j \in DOMAIN Sections : Sections[i] = section /\ Sections[j] = pc /\ i < j

\* position of a chunk id in the documented order of the sections
SectionRank(id) ==
    CASE id = "VERSION" -> 1
      [] id = "FLAGS" -> 2
      [] id = "MESHES" -> 3
      [] id = "SURFACES2" -> 4
      [] id = "BONES1" -> 5
      [] id = "USERDATA" -> 6
      [] id = "LOD_REF" -> 7
      [] id = "MOTIONS" -> 8
      [] id = "PARTITIONS1" -> 9
      [] id \in {"MOTION_REFS", "SMOTIONS3"} -> 10
      [] id = "TRANSFORM" -> 11
      [] id = "REVISION" -> 12

\* the node whose child list holds n
ParentOf(n) ==
    CHOOSE p \in Nodes : n \in Range(scene.children[p])

RECURSIVE PathTo(_)
\* the child positions leading from the root to n
PathTo(n) ==
    IF n = Root
    THEN <<>>
    ELSE Append(PathTo(ParentOf(n)),
                CHOOSE i \in DOMAIN scene.children[ParentOf(n)] :
                    scene.children[ParentOf(n)][i] = n)

\* depth-first pre-order: a node comes before its descendants, an earlier child's
\* subtree before a later child's
Before(a, b) ==
    LET pa == PathTo(a)
        pb == PathTo(b)
    IN \/ Len(pa) < Len(pb) /\ \A i \in DOMAIN pa : pa[i] = pb[i]
       \/ \E k \in DOMAIN pa \cap DOMAIN pb :
             /\ pa[k] < pb[k]
             /\ \A i \in 1..(k - 1) : pa[i] = pb[i]

RECURSIVE UnderHelper(_)
\* n or one of its ancestors is a helper
UnderHelper(n) ==
    \/ scene.helper[n]
    \/ n # Root /\ UnderHelper(ParentOf(n))

VisitedNodes ==
    {n \in Nodes : ~UnderHelper(n)}

VisitedMeshes ==
    {n \in VisitedNodes : scene.type[n] = "MESH"}

\* the bound targets of the armature modifiers of mesh n, in stack order
BoundTargets(n) ==
    SelectSeq([i \in DOMAIN scene.modifiers[n] |-> scene.modifiers[n][i]],
              LAMBDA m : m.type = "ARMATURE" /\ m.object # NoNode)

\* armature nodes visited, and armatures bound to visited meshes
EncounteredArmatures ==
    {n \in VisitedNodes : scene.type[n] = "ARMATURE"}
    \cup UNION {{m.object : m \in Range(BoundTargets(n))} : n \in VisitedMeshes}

(* ------------------------------------------------------------------ claims *)
\* C1: the chunks put so far always follow the order Version, Flags, Meshes, Surfaces,
\* Bones, UserData, LodRef, Motions, Partitions, MotionRefs, Transform, Revision, each
\* section gives at most one chunk, and a completed call ends with the REVISION chunk.
C1_SectionOrder ==
    /\ \A i, j \in DOMAIN chunked_writer :
          i < j => SectionRank(chunked_writer[i].id) < SectionRank(chunked_writer[j].id)
    /\ Completed => chunked_writer[Len(chunked_writer)].id = "REVISION"

\* a completed call in which every one of the twelve sections gave its chunk
C1_Witness ==
    Completed /\ Len(chunked_writer) = 12

\* C4: export_revision writes one REVISION chunk: (currentUser, storedCtime or the
\* current time when it is zero, "", 0) when the stored owner is empty or the current
\* user, and (storedOwner, storedCtime, currentUser, currentTime) otherwise.
C4_RevisionRecord ==
    Completed =>
        LET rev == ChunksOf({"REVISION"})
            own == xray.revision.owner
            ct == xray.revision.ctime
        IN /\ Len(rev) = 1
           /\ (own = "" \/ own = curruser) =>
                 rev[1].data = <<curruser, IF ct # 0 THEN ct ELSE clock, "", 0>>
           /\ (own # "" /\ own # curruser) =>
                 rev[1].data = <<own, ct, curruser, clock>>

\* an export by a user other than the stored owner, whose creation time was set before
C4_Witness ==
    /\ Completed
    /\ xray.revision.owner \notin {"", curruser}
    /\ xray.revision.ctime # 0
    /\ xray.revision.ctime # clock

\* no mesh, no armature, no user data, no LOD reference, identity transform, revision never set
EmptyObject ==
    /\ xray.present
    /\ \A n \in Nodes : scene.type[n] \notin {"MESH", "ARMATURE"}
    /\ xray.userdata = <<>>
    /\ xray.lodref = ""
    /\ matrix_world = IdentityMatrix
    /\ xray.revision = [owner |-> "", ctime |-> 0]

\* VERSION, FLAGS, an empty MESHES container, SURFACES with count 0, REVISION
EmptyOutput ==
    /\ ChunkIds = <<"VERSION", "FLAGS", "MESHES", "SURFACES2", "REVISION">>
    /\ chunked_writer[3].data = <<>>
    /\ chunked_writer[4].data.count = 0
    /\ chunked_writer[4].data.entries = <<>>

\* C5 as stated: an object with no meshes, no armature, no user data, no LOD reference,
\* identity transform and a never-set revision exports exactly VERSION, FLAGS, MESHES
\* (empty), SURFACES (count 0), REVISION.
C5_EmptyObject_Stated ==
    (Completed /\ EmptyObject) => EmptyOutput

\* C5 amended: the same, for an object that also has no motion references, neither the
\* legacy string nor the collection.
C5_EmptyObject ==
    (/\ Completed
     /\ EmptyObject
     /\ xray.motionrefs = ""
     /\ xray.motionrefs_collection = <<>>) => EmptyOutput

\* a completed export of such an object while motions are enabled
C5_Witness ==
    /\ Completed
    /\ EmptyObject
    /\ xray.motionrefs = ""
    /\ xray.motionrefs_collection = <<>>
    /\ xray.motions_collection # <<>>
    /\ context.export_motions
    /\ xray.flags = 1

\* the names of a motion-reference collection of one or two entries, joined by commas
CommaJoined(refs) ==
    IF Len(refs) = 1 THEN refs[1] ELSE refs[1] \o "," \o refs[2]

BothRefs ==
    xray.motionrefs # "" /\ xray.motionrefs_collection # <<>>

OnlyCollection ==
    xray.motionrefs = "" /\ xray.motionrefs_collection # <<>>

\* the count followed by the individual names
ModernEncoding ==
    ChunksOf({"MOTION_REFS", "SMOTIONS3"}) =
        <<[id |-> "SMOTIONS3",
           data |-> <<Len(xray.motionrefs_collection)>> \o xray.motionrefs_collection]>>

\* one string holding the collection's names joined by commas
JoinedEncoding ==
    ChunksOf({"MOTION_REFS", "SMOTIONS3"}) =
        <<[id |-> "MOTION_REFS", data |-> <<CommaJoined(xray.motionrefs_collection)>>]>>

\* C6 as stated: with both the legacy string and the collection populated the output is
\* the count followed by the collection's names and one warning is recorded; with
\* socSgroups and only the collection populated it is the comma-joined string and no
\* warning is recorded.
C6_MotionRefs_Stated ==
    Past("motion_refs") =>
        /\ BothRefs => (ModernEncoding /\ Len(warnings) = 1)
        /\ (context.soc_sgroups /\ OnlyCollection) => (JoinedEncoding /\ warnings = <<>>)

\* C6 amended: with both populated the output is built from the collection alone and one
\* warning is recorded; its form is the count followed by the names when socSgroups is
\* false and the comma-joined string when socSgroups is true. With socSgroups and only
\* the collection populated it is the comma-joined string and no warning is recorded.
C6_MotionRefs ==
    Past("motion_refs") =>
        /\ BothRefs =>
              /\ IF context.soc_sgroups THEN JoinedEncoding ELSE ModernEncoding
              /\ Len(warnings) = 1
              /\ warnings[1].data = xray.motionrefs
        /\ (context.soc_sgroups /\ OnlyCollection) => (JoinedEncoding /\ warnings = <<>>)

\* both populated, two names in the collection, socSgroups set, the encoder has run
C6_Witness ==
    /\ Past("motion_refs")
    /\ BothRefs
    /\ Len(xray.motionrefs_collection) = 2
    /\ context.soc_sgroups

\* the pose groups of an armature that hold at least one exportable bone of it
LiveGroups(arm) ==
    {g \in Range(scene.arm[arm].bone_groups) :
        \E b \in Range(scene.arm[arm].bones) :
            scene.arm[arm].exportable[b] /\ scene.arm[arm].bone_group[b] = g}

\* C7: a bone that is not exportable is never handed to the bone encoder, never in
\* BONES and never in a group of PARTITIONS; PARTITIONS counts and lists exactly the pose
\* groups of the chosen armature that hold an exportable bone, and is omitted when there
\* is no such group.
C7_ExportableBones ==
    /\ \A i \in DOMAIN bone_calls :
          scene.arm[bone_calls[i][1]].exportable[bone_calls[i][2]]
    /\ \A c \in Range(ChunksOf({"BONES1"})) : \A i \in DOMAIN c.data :
          scene.arm[c.data[i].data.arm].exportable[c.data[i].data.bone]
    /\ \A c \in Range(ChunksOf({"PARTITIONS1"})) :
          /\ c.data.count = Cardinality(LiveGroups(some_arm))
          /\ Len(c.data.groups) = c.data.count
          /\ \A i \in DOMAIN c.data.groups :
                /\ c.data.groups[i].name \in LiveGroups(some_arm)
                /\ c.data.groups[i].bones # <<>>
                /\ \A k \in DOMAIN c.data.groups[i].bones :
                      scene.arm[some_arm].exportable[c.data.groups[i].bones[k]]
    /\ Past("partitions") =>
          (ChunksOf({"PARTITIONS1"}) = <<>>
              <=> (some_arm = NoNode \/ LiveGroups(some_arm) = {}))

\* an armature with a bone that is not exportable, alone in its pose group, next to a
\* group that is exported
C7_Witness ==
    /\ Completed
    /\ some_arm # NoNode
    /\ ChunksOf({"PARTITIONS1"}) # <<>>
    /\ ChunksOf({"BONES1"}) # <<>>
    /\ \E b \in Range(scene.arm[some_arm].bones) :
          /\ ~scene.arm[some_arm].exportable[b]
          /\ scene.arm[some_arm].bone_group[b] \in
                Range(scene.arm[some_arm].bone_groups) \ LiveGroups(some_arm)

\* the materials some visited mesh carries in a slot and whose name some visited mesh
\* reports as used by its faces
UsedMaterials ==
    {m \in Materials :
        /\ \E n \in VisitedMeshes : m \in Range(scene.slots[n])
        /\ \E n \in VisitedMeshes : MaterialName(m) \in scene.used[n]}

\* C8: the count written in SURFACES is the number of distinct non-null materials whose
\* name is in the used-name set of a visited mesh; every such material is listed once
\* and no other material is listed.
C8_SurfacesCount ==
    Completed => \A c \in Range(ChunksOf({"SURFACES2"})) :
        /\ ChunksOf({"SURFACES2"}) = <<c>>
        /\ c.data.count = Cardinality(UsedMaterials)
        /\ Len(c.data.entries) = c.data.count
        /\ {c.data.entries[i].name : i \in DOMAIN c.data.entries}
              = {MaterialName(m) : m \in UsedMaterials}

\* a material used by two visited meshes, another one attached but used by no face
C8_Witness ==
    /\ Completed
    /\ \E m \in Materials, n1, n2 \in VisitedMeshes :
          /\ n1 # n2
          /\ m \in Range(scene.slots[n1]) /\ MaterialName(m) \in scene.used[n1]
          /\ m \in Range(scene.slots[n2]) /\ MaterialName(m) \in scene.used[n2]
    /\ \E m \in Materials \ UsedMaterials : \E n \in VisitedMeshes : m \in Range(scene.slots[n])

\* the visited nodes that bring an armature: armature nodes and skinned meshes
ArmatureSources ==
    {n \in VisitedNodes :
        \/ scene.type[n] = "ARMATURE"
        \/ scene.type[n] = "MESH" /\ BoundTargets(n) # <<>>}

\* the armature the depth-first pre-order walk meets first
FirstEncountered ==
    LET n == CHOOSE x \in ArmatureSources : \A y \in ArmatureSources \ {x} : Before(x, y)
    IN IF scene.type[n] = "ARMATURE" THEN n ELSE BoundTargets(n)[1].object

\* no armature found: nothing is chosen and both skeleton-wide sections are omitted
NoArmatureCase ==
    EncounteredArmatures = {} =>
        /\ some_arm = NoNode
        /\ ChunksOf({"MOTIONS", "PARTITIONS1"}) = <<>>

\* C9 as stated: with several armatures found, the one used for Motions and Partitions
\* is the first met in depth-first pre-order; with none found it is absent and both
\* sections are omitted.
C9_FirstArmature_Stated ==
    Completed =>
        /\ EncounteredArmatures # {} => some_arm = FirstEncountered
        /\ NoArmatureCase

\* C9 amended: the armature used for Motions and Partitions is one of the armatures the
\* walk found (armature nodes visited and bound targets of armature modifiers of visited
\* meshes), not necessarily the first met; with none found it is absent and both
\* sections are omitted.
C9_SomeArmature ==
    Completed =>
        /\ armatures = EncounteredArmatures
        /\ EncounteredArmatures # {} => some_arm \in EncounteredArmatures
        /\ NoArmatureCase

\* two armatures found, the one chosen is not the first met, and it drives PARTITIONS
C9_Witness ==
    /\ Completed
    /\ Cardinality(EncounteredArmatures) >= 2
    /\ some_arm # FirstEncountered
    /\ ChunksOf({"PARTITIONS1"}) # <<>>
    /\ ChunksOf({"MOTIONS"}) # <<>>

\* C10: MESHES holds one sub-chunk per visited mesh node, numbered 0..n-1 in
\* depth-first pre-order with children in stored order; a helper hides its whole
\* subtree, any other node's children are visited whatever its kind.
C10_MeshOrder ==
    Completed => \A c \in Range(ChunksOf({"MESHES"})) :
        /\ \A i \in DOMAIN c.data : c.data[i].id = i - 1
        /\ {c.data[i].data.mesh : i \in DOMAIN c.data} = VisitedMeshes
        /\ Len(c.data) = Cardinality(VisitedMeshes)
        /\ \A i, j \in DOMAIN c.data :
              i < j => Before(c.data[i].data.mesh, c.data[j].data.mesh)

\* a mesh deep in an earlier subtree is numbered before a shallower mesh of a later
\* one, and sits below a node that is no mesh
C10_Witness ==
    /\ Completed
    /\ \E a, b \in VisitedMeshes :
          /\ Before(a, b)
          /\ Len(PathTo(a)) > Len(PathTo(b))
          /\ scene.type[ParentOf(a)] # "MESH"

\* C2: two successive exports by the same user write the same owner and the same ctime,
\* also when the revision was never set before the first one.
C2_SameUserTwice ==
    \A i \in DOMAIN revlog :
        (i + 1 \in DOMAIN revlog /\ revlog[i].user = revlog[i + 1].user) =>
            /\ revlog[i + 1].record[1] = revlog[i].record[1]
            /\ revlog[i + 1].record[2] = revlog[i].record[2]

\* C3: after a first export of a never-exported object by user A at time t1, an export
\* by another user B at time t2 writes (A, t1, B, t2).
C3_OtherUserAfter ==
    (/\ Len(revlog) >= 2
     /\ xray.revision = [owner |-> "", ctime |-> 0]
     /\ revlog[1].user # revlog[2].user) =>
        revlog[2].record = <<revlog[1].user, revlog[1].time, revlog[2].user, revlog[2].time>>

====
